---- MODULE Spec2Model ----
(***************************************************************************)
(* A model of rdma/sim.py: the ibsim client transport of python-rdma.      *)
(*                                                                         *)
(*   SimConnection  the session: two datagram sockets, the CONNECT         *)
(*                  handshake, the control call _ctl and the teardown.     *)
(*   SimEndPort     the per-port cache of PortInfo (1 second TTL) and the  *)
(*                  values derived from it (gids, sa_path).                *)
(*   SimUMAD        the MAD transactor: sendto, recvfrom and the           *)
(*                  retry/match loop _execute, and the TID counter.        *)
(*                                                                         *)
(* Time is counted in ticks of half a second, so that "less than", "exactly" *)
(* and "more than" one second apart are three different distances.         *)
(***************************************************************************)
EXTENDS Integers, Sequences, FiniteSets, TLC

VARIABLES
    now,            \* rdma.tools.clock_monotonic(), in ticks
    pkt_rx,         \* datagrams readable on conn._pkt_sock, oldest first
    pkt_tx,         \* requests sent on conn._pkt_sock by the current _execute
    rx_total,       \* datagrams that ever reached conn._pkt_sock
    tid,            \* SimUMAD._tid
    trace_func,     \* MADTransactor.trace_func is not None
    trace_log,      \* the classifications trace_func was called with
    pc,             \* where the caller of _execute is
    ex_buf,         \* _execute's buf
    ex_path,        \* _execute's path: mad_timeout and retries
    ex_sendOnly,    \* _execute's sendOnly
    rmatch,         \* _execute's rmatch
    expire,         \* _execute's expire
    retries,        \* _execute's retries
    ret,            \* what _execute returned: Unset for None
    rx_log,         \* one entry per datagram recvfrom returned to _execute
    woke            \* the number of sends so far, when the head of pkt_rx arrived
                    \* while poll() was blocked before the deadline; else 0

execVars == <<now, pkt_rx, pkt_tx, rx_total, tid, trace_func, trace_log, pc,
              ex_buf, ex_path, ex_sendOnly, rmatch, expire, retries, ret,
              rx_log, woke>>

VARIABLES
    wall,                   \* time.time(), in ticks
    port_id,                \* SimEndPort.port_id
    node_guid,              \* SimDevice.node_guid, 8 bytes
    port_info,              \* SimEndPort._port_info
    port_info_age,          \* SimEndPort._port_info_age
    pkeys,                  \* SimEndPort.pkeys
    gids,                   \* SimEndPort._gids
    cached_sa_path,         \* SimEndPort._cached_sa_path
    cached_subnet_timeout,  \* SimEndPort._cached_subnet_timeout
    last_get,               \* when _get was last called
    last_refresh,           \* when _get last issued GET_PORTINFO
    sa_errors,              \* the accesses of sa_path that raised, up to 2
    first_sa,               \* the path sa_path stored first
    gids_prefix,            \* the cached GID prefix the gids were built from
    port_last               \* the last access of the port: what it was, when,
                            \* what it returned and which control calls it issued

portVars == <<wall, port_id, node_guid, port_info, port_info_age, pkeys, gids,
              cached_sa_path, cached_subnet_timeout, last_get, last_refresh,
              sa_errors, first_sa, gids_prefix, port_last>>

VARIABLES
    proc,           \* where the process is: importing, running, exiting
    env_set,        \* os.environ.get('IBSIM_SERVER_NAME') is true
    conn,           \* the module's global conn
    atexit_hooks,   \* the functions registered with atexit
    client_id,      \* SimConnection._client_id
    candidate_id,   \* the local port of the data socket, the id first proposed
    assigned_id,    \* the id in the simulator's reply to CONNECT
    ctl_sock,       \* SimConnection._ctl_sock
    pkt_sock,       \* SimConnection._pkt_sock
    pkt_peer,       \* the remote port _pkt_sock is connected to
    ctl_log,        \* the control envelopes sent on _ctl_sock, oldest first
    pkt_count,      \* the datagrams sent on _pkt_sock
    ctl_reply,      \* the reply to the envelope sent last: not asked for,
                    \* pending, readable on _ctl_sock, or lost
    ctl_recvd       \* the replies _ctl_sock.recv has returned

connVars == <<proc, env_set, conn, atexit_hooks, client_id, candidate_id,
              assigned_id, ctl_sock, pkt_sock, pkt_peer, ctl_log, pkt_count,
              ctl_reply, ctl_recvd>>

VARIABLES
    environ         \* os.environ when the module is imported

VARIABLES
    dev_open,       \* a SimDevice has been constructed
    node_info,      \* SimDevice.node_info
    end_ports,      \* SimDevice.end_ports: the port_id of each entry, in order
    dev_last        \* the property of the device read last, and its value

devVars == <<dev_open, node_info, end_ports, dev_last>>

VARIABLES
    codec_in,       \* the struct and the field values last packed
    codec_wire,     \* the bytes pack made of them
    codec_out       \* the field values unpack made of the bytes

codecVars == <<codec_in, codec_wire, codec_out>>

VARIABLES
    peer,           \* a second SimUMAD on the same data socket: where its
                    \* _execute is, its buf, path, rmatch, expire, retries and
                    \* ret, what it sent and what its recvfrom returned
    arrivals        \* the datagrams that reached the data socket while the
                    \* two share it, each with whether it came during the
                    \* first one's call before the deadline then in force,
                    \* and whether it found the first blocked in poll() and
                    \* the socket empty

shareVars == <<peer, arrivals>>

restVars == <<environ, devVars, codecVars, shareVars>>

(* What the device and the structs leave alone of restVars. *)
restOfDev == <<environ, codecVars, shareVars>>

restOfCodec == <<environ, devVars, shareVars>>

vars == <<execVars, portVars, connVars, restVars>>

----------------------------------------------------------------------------
(* Bounds of the model. *)

MaxTime == 6          \* the clock stops ticking here
MaxTimeout == 2       \* path.mad_timeout is drawn from 1..MaxTimeout
MaxRetries == 2       \* path.retries is drawn from 0..MaxRetries
MaxDeliver == 2       \* datagrams the simulator sends to the data socket
MaxWall == 6          \* time.time() stops ticking here
MaxCtl == 3           \* control calls and datagrams of a running session
MaxPort == 1          \* port_id is drawn from 0..MaxPort
MaxNumPorts == 3      \* node_info.numPorts is drawn from 0..MaxNumPorts
TicksPerSecond == 2   \* the resolution of both clocks
TidSpan == 1          \* _get_new_TID is not called once the low half is this

----------------------------------------------------------------------------
(* Values. *)

None == "None"

(* An attribute that has not been set, or a time that has not come: the    *)
(* empty tuple; a value v that is there: <<v>>.                            *)
Unset == <<>>

TRACE_UNEXPECTED == "TRACE_UNEXPECTED"

(* 1 << 32 is TidHalf * TidHalf. A TID is kept as its two 16-bit halves,    *)
(* <<high, low>>: the model checker's integers are 32 bits wide.           *)
TidHalf == 65536

(* A MAD is known here by the two header fields the match key is made of.  *)
Methods == {"Get", "GetResp"}
MADs == [method : Methods, tid : {1, 2}]

(* The buffers _execute is called with are requests. *)
Requests == {m \in MADs : m.method = "Get"}

(* sim_request: the envelope around a MAD on the data socket. *)
Envelope(dlid, slid, pkt) == [dlid |-> dlid, slid |-> slid, pkt |-> pkt]

(* What the simulator may send to this client: the reply to either        *)
(* request.                                                                *)
Datagrams == {Envelope(1, 2, m) : m \in {m \in MADs : m.method = "GetResp"}}

Paths == [mad_timeout : 1..MaxTimeout, retries : 0..MaxRetries]

----------------------------------------------------------------------------
(* MADTransactor's match keys. rdma/madtransactor.py is not part of the    *)
(* sources given: the key of a MAD is its method and transaction id, and   *)
(* the reply to a request carries the response method and the same id.     *)

GetMatchKey(pkt) == <<pkt.method, pkt.tid>>

GetReplyMatchKey(buf) ==
    <<IF buf.method = "Get" THEN "GetResp" ELSE buf.method, buf.tid>>

----------------------------------------------------------------------------
(* SimConnection *)

SIM_SERVER_PORT == 7070

SIM_MAGIC == "0xdeadbeef"

SIM_CTL_CONNECT == 1

SIM_CTL_DISCONNECT == 2

SIM_CTL_GET_NODEINFO == 7

SIM_CTL_GET_PORTINFO == 8

(* _struct_info.size: '=LLL32s'. *)
InfoSize == 44

(* SIM_HOST, the node id. *)
SIM_HOST == "sim1"

(* os.environ, as far as the module reads it: each variable absent or set. *)
Environs ==
    [IBSIM_SERVER_NAME : {Unset, <<"">>, <<"simhost">>},
     IBSIM_SERVER_PORT : {Unset, <<"7070">>},
     SIM_HOST : {Unset, <<SIM_HOST>>}]

(* SIM_SERVER_HOST = os.environ.get('IBSIM_SERVER_NAME', 'localhost') *)
ServerHost(e) ==
    IF e.IBSIM_SERVER_NAME = Unset THEN "localhost" ELSE e.IBSIM_SERVER_NAME[1]

(* if os.environ.get('IBSIM_SERVER_NAME'): set and not empty. *)
ConfiguredByHost(e) == ServerHost(e) # ""

Configured(e) == e.IBSIM_SERVER_NAME # Unset /\ e.IBSIM_SERVER_NAME[1] # ""

(* SimConnection(SIM_HOST): nodeid, '' when SIM_HOST is None. *)
NodeId(e) == IF e.SIM_HOST = Unset THEN "" ELSE e.SIM_HOST[1]

(* The local ports the data socket may be bound to. *)
EphemeralPorts == {40000, 50000}

(* The client ids the simulator assigns. *)
ClientIds == {0, 42}

(* Where SimConnection.__init__ may raise before CONNECT is sent: in       *)
(* getaddrinfo, in creating and binding _pkt_sock, in creating, binding    *)
(* and connecting _ctl_sock.                                               *)
EarlyFailures == {"getaddrinfo", "pkt_sock", "ctl_sock"}

(* _struct_info.pack(self._client_id, qp, issm, nodeid) *)
ClientInfo(id, qp, issm, nodeid) ==
    [id |-> id, qp |-> qp, issm |-> issm, nodeid |-> nodeid]

(* _ctl: len(data). *)
DataLen(data) == IF DOMAIN data = {"id", "qp", "issm", "nodeid"} THEN InfoSize
                 ELSE Len(data)

(* _ctl: _struct_ctl.pack(SIM_MAGIC, self._client_id, type, len(data), data) *)
CtlEnvelope(type, data) ==
    [magic |-> SIM_MAGIC, client_id |-> client_id[1], type |-> type,
     len |-> DataLen(data), data |-> data]

(* _ctl: self._ctl_sock.send(msg). *)
CtlSend(type, data) == ctl_log' = Append(ctl_log, CtlEnvelope(type, data))

(* __init__: port = SIM_SERVER_PORT + self._client_id + 1. *)
PktPortOfCandidate(candidate, id) == SIM_SERVER_PORT + candidate + 1

PktPort(candidate, id) == SIM_SERVER_PORT + id + 1

(* __del__: self._ctl(SIM_CTL_DISCONNECT) gets as far as the send: the     *)
(* object has a _client_id and a connected _ctl_sock.                      *)
DelSendsAfterHandshake == assigned_id # Unset

DelSends == client_id # Unset /\ ctl_sock = "connected"

(* _ctl: self._ctl_sock.recv(_struct_ctl.size) on a blocking socket        *)
(* returns once a reply is readable.                                       *)
RecvGivesUp(reply) == reply \in {"ready", "lost"}

RecvReturns(reply) == reply = "ready"

(* The module is imported without IBSIM_SERVER_NAME: lines 326 to 332 are  *)
(* skipped.                                                                *)
ImportWithoutServer ==
    /\ proc = "start"
    /\ ~env_set
    /\ proc' = "running"
    /\ UNCHANGED <<env_set, conn, atexit_hooks, client_id, candidate_id,
                   assigned_id, ctl_sock, pkt_sock, pkt_peer, ctl_log, pkt_count,
                   ctl_reply, ctl_recvd>>
    /\ UNCHANGED <<execVars, portVars, restVars>>

(* conn = SimConnection(SIM_HOST) raises before its CONNECT is sent. *)
ConnectFailsEarly(where, port) ==
    /\ proc = "start"
    /\ env_set
    /\ proc' = "failed"
    /\ pkt_sock' = IF where = "ctl_sock" THEN "bound" ELSE "none"
    /\ candidate_id' = IF where = "ctl_sock" THEN <<port>> ELSE Unset
    /\ client_id' = IF where = "ctl_sock" THEN <<port>> ELSE Unset
    /\ UNCHANGED <<env_set, conn, atexit_hooks, assigned_id, ctl_sock, pkt_peer,
                   ctl_log, pkt_count, ctl_reply, ctl_recvd>>
    /\ UNCHANGED <<execVars, portVars, restVars>>

(* conn = SimConnection(SIM_HOST): both sockets are made, the candidate id *)
(* is the data socket's local port, CONNECT is sent and _ctl blocks in     *)
(* recv.                                                                   *)
ConnectSend(port) ==
    /\ proc = "start"
    /\ env_set
    /\ proc' = "connecting"
    /\ pkt_sock' = "bound"
    /\ candidate_id' = <<port>>
    /\ client_id' = <<port>>
    /\ ctl_sock' = "connected"
    /\ ctl_log' = Append(ctl_log,
                         [magic |-> SIM_MAGIC, client_id |-> port,
                          type |-> SIM_CTL_CONNECT, len |-> InfoSize,
                          data |-> ClientInfo(port, 0, 0, NodeId(environ))])
    /\ ctl_reply' = "pending"
    /\ UNCHANGED <<env_set, conn, atexit_hooks, assigned_id, pkt_peer, pkt_count,
                   ctl_recvd>>
    /\ UNCHANGED <<execVars, portVars, restVars>>

(* The reply to CONNECT arrives: the id in it becomes _client_id, the data *)
(* socket is connected, conn is bound and finish is registered.            *)
ConnectReply(id) ==
    /\ proc = "connecting"
    /\ RecvReturns(ctl_reply)
    /\ ctl_reply' = "none"
    /\ ctl_recvd' = ctl_recvd + 1
    /\ proc' = "running"
    /\ assigned_id' = <<id>>
    /\ client_id' = <<id>>
    /\ pkt_peer' = <<PktPort(candidate_id[1], id)>>
    /\ pkt_sock' = "connected"
    /\ conn' = "SimConnection"
    /\ atexit_hooks' = Append(atexit_hooks, "finish")
    /\ UNCHANGED <<env_set, candidate_id, ctl_sock, ctl_log, pkt_count>>
    /\ UNCHANGED <<execVars, portVars, restVars>>

(* The reply to CONNECT arrives and its unpacking raises. *)
ConnectReplyFails ==
    /\ proc = "connecting"
    /\ RecvReturns(ctl_reply)
    /\ ctl_reply' = "none"
    /\ ctl_recvd' = ctl_recvd + 1
    /\ proc' = "failed"
    /\ UNCHANGED <<env_set, conn, atexit_hooks, client_id, candidate_id,
                   assigned_id, ctl_sock, pkt_sock, pkt_peer, ctl_log, pkt_count>>
    /\ UNCHANGED <<execVars, portVars, restVars>>

(* What releasing the object does to a socket it holds. *)
Released(sock) == IF sock = "none" THEN "none" ELSE "closed"

(* __del__ of an object whose __init__ raised, when the exception lets go  *)
(* of it: DISCONNECT is sent and _ctl blocks in recv, or _ctl raises       *)
(* before the send and the object is released.                             *)
DelFailed ==
    /\ proc = "failed"
    /\ IF DelSends
       THEN /\ CtlSend(SIM_CTL_DISCONNECT, <<>>)
            /\ ctl_reply' = "pending"
            /\ proc' = "deleting"
            /\ UNCHANGED <<ctl_sock, pkt_sock>>
       ELSE /\ proc' = "exited"
            /\ ctl_sock' = Released(ctl_sock)
            /\ pkt_sock' = Released(pkt_sock)
            /\ UNCHANGED <<ctl_log, ctl_reply>>
    /\ UNCHANGED <<env_set, conn, atexit_hooks, client_id, candidate_id,
                   assigned_id, pkt_peer, pkt_count, ctl_recvd>>
    /\ UNCHANGED <<execVars, portVars, restVars>>

(* A control call of the running session: _ctl sends its envelope and     *)
(* blocks in recv.                                                         *)
CtlCall(type) ==
    /\ proc = "running"
    /\ conn = "SimConnection"
    /\ Len(ctl_log) + pkt_count <= MaxCtl
    /\ CtlSend(type, <<>>)
    /\ ctl_reply' = "pending"
    /\ proc' = "calling"
    /\ UNCHANGED <<env_set, conn, atexit_hooks, client_id, candidate_id,
                   assigned_id, ctl_sock, pkt_sock, pkt_peer, pkt_count, ctl_recvd>>
    /\ UNCHANGED <<execVars, portVars, restVars>>

(* _ctl: recv returns the reply, which is unpacked and returned. *)
CtlReturns ==
    /\ proc = "calling"
    /\ RecvReturns(ctl_reply)
    /\ ctl_reply' = "none"
    /\ ctl_recvd' = ctl_recvd + 1
    /\ proc' = "running"
    /\ UNCHANGED <<env_set, conn, atexit_hooks, client_id, candidate_id,
                   assigned_id, ctl_sock, pkt_sock, pkt_peer, ctl_log, pkt_count>>
    /\ UNCHANGED <<execVars, portVars, restVars>>

(* The simulator's reply to the envelope sent last reaches _ctl_sock. *)
SimReplies ==
    /\ ctl_reply = "pending"
    /\ ctl_reply' = "ready"
    /\ UNCHANGED <<proc, env_set, conn, atexit_hooks, client_id, candidate_id,
                   assigned_id, ctl_sock, pkt_sock, pkt_peer, ctl_log, pkt_count,
                   ctl_recvd>>
    /\ UNCHANGED <<execVars, portVars, restVars>>

(* The envelope sent last, or the reply to it, is lost on the way. *)
SimLoses ==
    /\ ctl_reply = "pending"
    /\ ctl_reply' = "lost"
    /\ UNCHANGED <<proc, env_set, conn, atexit_hooks, client_id, candidate_id,
                   assigned_id, ctl_sock, pkt_sock, pkt_peer, ctl_log, pkt_count,
                   ctl_recvd>>
    /\ UNCHANGED <<execVars, portVars, restVars>>

(* A send or a receive on the data socket of the running session. *)
PktUse ==
    /\ proc = "running"
    /\ conn = "SimConnection"
    /\ Len(ctl_log) + pkt_count <= MaxCtl
    /\ pkt_count' = pkt_count + 1
    /\ UNCHANGED <<proc, env_set, conn, atexit_hooks, client_id, candidate_id,
                   assigned_id, ctl_sock, pkt_sock, pkt_peer, ctl_log, ctl_reply,
                   ctl_recvd>>
    /\ UNCHANGED <<execVars, portVars, restVars>>

(* The process exits: atexit runs finish, del conn releases the last       *)
(* reference, __del__ sends DISCONNECT and _ctl blocks in recv.            *)
Exit ==
    /\ proc = "running"
    /\ IF atexit_hooks # <<>>
       THEN /\ conn' = "deleted"
            /\ IF DelSends
               THEN /\ CtlSend(SIM_CTL_DISCONNECT, <<>>)
                    /\ ctl_reply' = "pending"
                    /\ proc' = "deleting"
                    /\ UNCHANGED <<ctl_sock, pkt_sock>>
               ELSE /\ proc' = "exited"
                    /\ ctl_sock' = Released(ctl_sock)
                    /\ pkt_sock' = Released(pkt_sock)
                    /\ UNCHANGED <<ctl_log, ctl_reply>>
       ELSE /\ proc' = "exited"
            /\ UNCHANGED <<conn, ctl_sock, pkt_sock, ctl_log, ctl_reply>>
    /\ UNCHANGED <<env_set, atexit_hooks, client_id, candidate_id, assigned_id,
                   pkt_peer, pkt_count, ctl_recvd>>
    /\ UNCHANGED <<execVars, portVars, restVars>>

(* recv in __del__ returns: the object and its sockets are released. *)
DelReturns ==
    /\ proc = "deleting"
    /\ RecvReturns(ctl_reply)
    /\ ctl_reply' = "none"
    /\ ctl_recvd' = ctl_recvd + 1
    /\ proc' = "exited"
    /\ ctl_sock' = Released(ctl_sock)
    /\ pkt_sock' = Released(pkt_sock)
    /\ UNCHANGED <<env_set, conn, atexit_hooks, client_id, candidate_id,
                   assigned_id, pkt_peer, ctl_log, pkt_count>>
    /\ UNCHANGED <<execVars, portVars, restVars>>

(* The process before it imports rdma.sim. *)
InitConn ==
    /\ proc = "start"
    /\ environ \in Environs
    /\ env_set = Configured(environ)
    /\ conn = None
    /\ atexit_hooks = <<>>
    /\ client_id = Unset
    /\ candidate_id = Unset
    /\ assigned_id = Unset
    /\ ctl_sock = "none"
    /\ pkt_sock = "none"
    /\ pkt_peer = Unset
    /\ ctl_log = <<>>
    /\ pkt_count = 0
    /\ ctl_reply = "none"
    /\ ctl_recvd = 0

(* A running session, for the specifications that are not about it. *)
LiveSession ==
    /\ proc = "running"
    /\ environ = [IBSIM_SERVER_NAME |-> <<"simhost">>,
                  IBSIM_SERVER_PORT |-> <<"7070">>, SIM_HOST |-> <<SIM_HOST>>]
    /\ env_set = TRUE
    /\ conn = "SimConnection"
    /\ atexit_hooks = <<"finish">>
    /\ client_id = <<42>>
    /\ candidate_id = <<40000>>
    /\ assigned_id = <<42>>
    /\ ctl_sock = "connected"
    /\ pkt_sock = "connected"
    /\ pkt_peer = <<PktPort(40000, 42)>>
    /\ ctl_log = <<>>
    /\ pkt_count = 0
    /\ ctl_reply = "none"
    /\ ctl_recvd = 0

----------------------------------------------------------------------------
(* SimEndPort *)

PKEY_DEFAULT == 65535

PKEY_PARTIAL_DEFAULT == 32767

(* IBA.GID_DEFAULT_PREFIX, fe80::/64, as 8 bytes. *)
GID_DEFAULT_PREFIX == <<254, 128, 0, 0, 0, 0, 0, 0>>

IB_DEFAULT_QP1_QKEY == "0x80010000"

RDMAError == "RDMAError"

(* The default of subnet_timeout. *)
DefaultSubnetTimeout == 18

(* The node GUIDs the simulator reports. *)
NodeGUIDs == {<<0, 2, 201, 1, 2, 3, 4, 240>>, <<16, 17, 18, 19, 20, 21, 22, 23>>}

(* IBA.SMPPortInfo(): the fields of a fresh structure. *)
ZeroPortInfo ==
    [LID |-> 0, masterSMLID |-> 0, masterSMSL |-> 0,
     GIDPrefix |-> <<0, 0, 0, 0, 0, 0, 0, 0>>]

(* The PortInfo the simulator may reply with. *)
PortInfos ==
    {[LID |-> 3, masterSMLID |-> 1, masterSMSL |-> 0,
      GIDPrefix |-> GID_DEFAULT_PREFIX],
     [LID |-> 4, masterSMLID |-> 2, masterSMSL |-> 1,
      GIDPrefix |-> <<254, 192, 0, 0, 0, 0, 0, 1>>]}

(* The cached fields read through lid, sm_lid and sm_sl. *)
Fields == {"LID", "masterSMLID", "masterSMSL"}

(* The P_Key tables a port is given. *)
PkeyLists ==
    {<<PKEY_DEFAULT>>, <<1, PKEY_PARTIAL_DEFAULT>>, <<1, 2>>,
     <<PKEY_PARTIAL_DEFAULT, PKEY_DEFAULT>>}

(* conn._ctl(SIM_CTL_GET_PORTINFO, struct.pack('B', self.port_id)) *)
GetPortInfoCall == CtlEnvelope(SIM_CTL_GET_PORTINFO, <<port_id>>)

(* _get: now > self._port_info_age + 1. *)
StaleFromTTL(t) == t >= port_info_age + TicksPerSecond

Stale(t) == t > port_info_age + TicksPerSecond

(* _get: the cached fields, the cache time and the control calls after    *)
(* the call, the simulator answering a GET_PORTINFO with reply.            *)
InfoAfterGet(reply) == IF Stale(wall) THEN reply ELSE port_info

AgeNotStamped == port_info_age

AgeAfterGet == IF Stale(wall) THEN wall ELSE port_info_age

CtlOfGet == IF Stale(wall) THEN <<GetPortInfoCall>> ELSE <<>>

(* What every call of _get leaves behind. *)
Get(reply) ==
    /\ port_info' = InfoAfterGet(reply)
    /\ port_info_age' = AgeAfterGet
    /\ last_get' = <<wall>>
    /\ last_refresh' = IF CtlOfGet # <<>> THEN <<wall>> ELSE last_refresh

(* t is no more than one second after the time m, if m has come. *)
Within(m, t) == m # Unset /\ t - m[1] <= TicksPerSecond

(* What an access records about the state it found: whether there was a   *)
(* read or a refresh before it and whether that was within one second,     *)
(* whether the cache time was more than a second ago, whether the SA path  *)
(* and the gids were already there, and whether the P_Key table holds one  *)
(* of the two default P_Keys.                                              *)
Found ==
    [had_get |-> last_get # Unset, near_get |-> Within(last_get, wall),
     had_refresh |-> last_refresh # Unset,
     near_refresh |-> Within(last_refresh, wall),
     stale |-> wall > port_info_age + TicksPerSecond,
     had_sa |-> cached_sa_path # Unset, had_gids |-> gids # None,
     keyed |-> \E i \in 1..Len(pkeys) :
                  pkeys[i] \in {PKEY_DEFAULT, PKEY_PARTIAL_DEFAULT}]

(* lid, sm_lid, sm_sl: return self._get(field). *)
ReadAttr(field, reply) ==
    /\ Get(reply)
    /\ port_last' = [op |-> "get", got |-> TRUE, ctl |-> CtlOfGet,
                     ret |-> <<InfoAfterGet(reply)[field]>>, raised |-> "",
                     found |-> Found]
    /\ UNCHANGED <<wall, port_id, node_guid, pkeys, gids, cached_sa_path,
                   cached_subnet_timeout, sa_errors, first_sa, gids_prefix>>
    /\ UNCHANGED <<execVars, connVars, restVars>>

(* IBA.GID(prefix, guid): 16 bytes. *)
GID(prefix, guid) == prefix \o guid

(* gids: the node GUID with guid[7] = self.port_id. *)
PortGuid(guid, port) == [guid EXCEPT ![8] = port]

(* gids: the tuple built from the cached prefix. *)
GidsDefaultFirst(prefix, guid) ==
    IF prefix = GID_DEFAULT_PREFIX
    THEN <<GID(GID_DEFAULT_PREFIX, guid)>>
    ELSE <<GID(GID_DEFAULT_PREFIX, guid), GID(prefix, guid)>>

GidsOf(prefix, guid) ==
    IF prefix = GID_DEFAULT_PREFIX
    THEN <<GID(GID_DEFAULT_PREFIX, guid)>>
    ELSE <<GID(prefix, guid), GID(GID_DEFAULT_PREFIX, guid)>>

(* gids *)
ReadGids(reply) ==
    /\ IF gids = None
       THEN /\ Get(reply)
            /\ gids' = GidsOf(InfoAfterGet(reply).GIDPrefix,
                              PortGuid(node_guid, port_id))
            /\ gids_prefix' = <<InfoAfterGet(reply).GIDPrefix>>
            /\ port_last' = [op |-> "gids", got |-> TRUE, ctl |-> CtlOfGet,
                             ret |-> <<gids'>>, raised |-> "", found |-> Found]
       ELSE /\ port_last' = [op |-> "gids", got |-> FALSE, ctl |-> <<>>,
                             ret |-> <<gids>>, raised |-> "", found |-> Found]
            /\ UNCHANGED <<port_info, port_info_age, last_get, last_refresh, gids,
                           gids_prefix>>
    /\ UNCHANGED <<wall, port_id, node_guid, pkeys, cached_sa_path,
                   cached_subnet_timeout, sa_errors, first_sa>>
    /\ UNCHANGED <<execVars, connVars, restVars>>

(* pkey_index: self.pkeys.index(pkey), counted from 0; -1 for ValueError. *)
PkeyIndex(ks, pkey) ==
    IF \E i \in 1..Len(ks) : ks[i] = pkey
    THEN (CHOOSE i \in 1..Len(ks) :
              ks[i] = pkey /\ \A j \in 1..(i - 1) : ks[j] # pkey) - 1
    ELSE -1

(* sa_path: the index of PKEY_DEFAULT, else of PKEY_PARTIAL_DEFAULT. *)
SaPkeyIndex(ks) ==
    IF PkeyIndex(ks, PKEY_DEFAULT) # -1
    THEN PkeyIndex(ks, PKEY_DEFAULT)
    ELSE PkeyIndex(ks, PKEY_PARTIAL_DEFAULT)

(* subnet_timeout *)
SubnetTimeout ==
    IF cached_subnet_timeout # Unset THEN cached_subnet_timeout[1]
    ELSE DefaultSubnetTimeout

(* sa_path: the IBPath built from the cached fields. *)
SaPath(info, pkey_idx) ==
    [DLID |-> info.masterSMLID, SLID |-> info.LID, SL |-> info.masterSMSL,
     dqpn |-> 1, sqpn |-> 1, qkey |-> IB_DEFAULT_QP1_QKEY,
     pkey_index |-> pkey_idx, packet_life_time |-> SubnetTimeout]

(* sa_path: self._cached_sa_path = ... *)
PathForgotten(path) == Unset

PathStored(path) == <<path>>

(* sa_path. Its reads of sm_lid, lid and sm_sl follow one another at once: *)
(* the first refreshes a stale cache and the other two find it fresh.      *)
ReadSaPath(reply) ==
    /\ IF cached_sa_path # Unset
       THEN /\ port_last' = [op |-> "sa_path", got |-> FALSE, ctl |-> <<>>,
                             ret |-> cached_sa_path, raised |-> "",
                             found |-> Found]
            /\ UNCHANGED <<port_info, port_info_age, last_get, last_refresh,
                           cached_sa_path, sa_errors, first_sa>>
       ELSE IF SaPkeyIndex(pkeys) = -1
            THEN /\ port_last' = [op |-> "sa_path", got |-> FALSE, ctl |-> <<>>,
                                  ret |-> <<>>, raised |-> RDMAError,
                                  found |-> Found]
                 /\ sa_errors' = IF sa_errors < 2 THEN sa_errors + 1 ELSE sa_errors
                 /\ UNCHANGED <<port_info, port_info_age, last_get, last_refresh,
                                cached_sa_path, first_sa>>
            ELSE /\ Get(reply)
                 /\ cached_sa_path' =
                        PathStored(SaPath(InfoAfterGet(reply), SaPkeyIndex(pkeys)))
                 /\ port_last' = [op |-> "sa_path", got |-> TRUE, ctl |-> CtlOfGet,
                                  ret |-> <<SaPath(InfoAfterGet(reply),
                                                   SaPkeyIndex(pkeys))>>,
                                  raised |-> "", found |-> Found]
                 /\ first_sa' = IF first_sa = Unset
                                 THEN <<SaPath(InfoAfterGet(reply),
                                               SaPkeyIndex(pkeys))>>
                                 ELSE first_sa
                 /\ UNCHANGED sa_errors
    /\ UNCHANGED <<wall, port_id, node_guid, pkeys, gids, cached_subnet_timeout,
                   gids_prefix>>
    /\ UNCHANGED <<execVars, connVars, restVars>>

(* The port is given its P_Key table. The table is not changed once the SA *)
(* path has been built from it: sa_path "should never be changed".         *)
SetPkeys(ks) ==
    /\ cached_sa_path = Unset
    /\ pkeys # ks
    /\ pkeys' = ks
    /\ UNCHANGED <<wall, port_id, node_guid, port_info, port_info_age, gids,
                   cached_sa_path, cached_subnet_timeout, last_get, last_refresh,
                   sa_errors, first_sa, gids_prefix, port_last>>
    /\ UNCHANGED <<execVars, connVars, restVars>>

(* time.time() advances. *)
TickWall ==
    /\ wall < MaxWall
    /\ wall' = wall + 1
    /\ UNCHANGED <<port_id, node_guid, port_info, port_info_age, pkeys, gids,
                   cached_sa_path, cached_subnet_timeout, last_get, last_refresh,
                   sa_errors, first_sa, gids_prefix, port_last>>
    /\ UNCHANGED <<execVars, connVars, restVars>>

(* SimEndPort.__init__, on a device whose GUID and port index are drawn;   *)
(* time.time() is long past the epoch.                                     *)
InitPort ==
    /\ wall = TicksPerSecond + 1
    /\ port_id \in 0..MaxPort
    /\ node_guid \in NodeGUIDs
    /\ port_info = ZeroPortInfo
    /\ port_info_age = 0
    /\ pkeys = <<PKEY_DEFAULT>>
    /\ gids = None
    /\ cached_sa_path = Unset
    /\ cached_subnet_timeout = Unset
    /\ last_get = Unset
    /\ last_refresh = Unset
    /\ sa_errors = 0
    /\ first_sa = Unset
    /\ gids_prefix = Unset
    /\ port_last = [op |-> "init"]

(* An idle port, for the specifications that are not about it. *)
IdlePort ==
    /\ InitPort
    /\ port_id = 1
    /\ node_guid = <<0, 2, 201, 1, 2, 3, 4, 240>>

----------------------------------------------------------------------------
(* SimDevice *)

(* IBA.NODE_SWITCH *)
NODE_SWITCH == 2

(* The NodeInfo the simulator may reply with: a channel adapter (1), a     *)
(* switch or a router (3).                                                 *)
NodeInfos ==
    [nodeType : {1, NODE_SWITCH, 3}, numPorts : 0..MaxNumPorts,
     nodeGUID : NodeGUIDs]

(* IBA.SMPNodeInfo(): the fields of a fresh structure. *)
ZeroNodeInfo == [nodeType |-> 0, numPorts |-> 0, nodeGUID |-> <<0, 0, 0, 0, 0, 0, 0, 0>>]

(* range(begin, end) *)
Range(begin, end) == [i \in 1..(end - begin) |-> begin + i - 1]

(* __init__: begin and end, by node type. *)
EndPortRangeFromOne(info) == Range(1, info.numPorts + 1)

EndPortRange(info) ==
    IF info.nodeType = NODE_SWITCH
    THEN Range(0, 1)
    ELSE Range(1, info.numPorts + 1)

(* The properties that read node_info. *)
DevProperties == {"node_type", "node_guid"}

(* SimDevice(name): one GET_NODEINFO control call, answered with reply,    *)
(* and one SimEndPort per index of the range.                              *)
OpenDevice(reply) ==
    /\ ~dev_open
    /\ proc = "running"
    /\ conn = "SimConnection"
    /\ CtlSend(SIM_CTL_GET_NODEINFO, <<>>)
    /\ ctl_recvd' = ctl_recvd + 1
    /\ dev_open' = TRUE
    /\ node_info' = reply
    /\ end_ports' = EndPortRange(reply)
    /\ UNCHANGED <<dev_last, restOfDev>>
    /\ UNCHANGED <<proc, env_set, conn, atexit_hooks, client_id, candidate_id,
                   assigned_id, ctl_sock, pkt_sock, pkt_peer, pkt_count, ctl_reply>>
    /\ UNCHANGED <<execVars, portVars>>

(* node_type, node_guid *)
DevRead(property) ==
    /\ dev_open
    /\ dev_last' = [property |-> property,
                    value |-> IF property = "node_type"
                              THEN <<node_info.nodeType>>
                              ELSE node_info.nodeGUID]
    /\ UNCHANGED <<dev_open, node_info, end_ports, restOfDev>>
    /\ UNCHANGED <<execVars, portVars, connVars>>

(* A read of a cached field on the k-th entry of end_ports, its cache      *)
(* stale: _get issues GET_PORTINFO for the entry's port_id.                *)
DevPortRefresh(k) ==
    /\ dev_open
    /\ k \in 1..Len(end_ports)
    /\ proc = "running"
    /\ Len(ctl_log) < MaxCtl
    /\ CtlSend(SIM_CTL_GET_PORTINFO, <<end_ports[k]>>)
    /\ ctl_recvd' = ctl_recvd + 1
    /\ UNCHANGED <<devVars, restOfDev>>
    /\ UNCHANGED <<proc, env_set, conn, atexit_hooks, client_id, candidate_id,
                   assigned_id, ctl_sock, pkt_sock, pkt_peer, pkt_count, ctl_reply>>
    /\ UNCHANGED <<execVars, portVars>>

(* No device has been opened. *)
IdleDev ==
    /\ dev_open = FALSE
    /\ node_info = ZeroNodeInfo
    /\ end_ports = <<>>
    /\ dev_last = [property |-> "none", value |-> <<>>]

----------------------------------------------------------------------------
(* _struct_ctl, _struct_info, _struct_request *)

(* An unsigned integer is the sequence of its 16-bit digits, the most      *)
(* significant first: one for H, two for L, four for Q.                    *)
HalfBytes(h) == <<h \div 256, h % 256>>

RECURSIVE BigEndian(_)
BigEndian(v) == IF v = <<>> THEN <<>> ELSE HalfBytes(Head(v)) \o BigEndian(Tail(v))

Reverse(q) == [i \in 1..Len(q) |-> q[Len(q) + 1 - i]]

(* pack of an H, L or Q in the byte order of the struct: '>' is big        *)
(* endian, '=' is the order of the machine.                                *)
PackUnsigned(v, order) ==
    IF order = "big" THEN BigEndian(v) ELSE Reverse(BigEndian(v))

(* unpack of an H, L or Q. *)
UnpackBigEndian(bytes, order) ==
    [i \in 1..(Len(bytes) \div 2) |-> bytes[2 * i - 1] * 256 + bytes[2 * i]]

UnpackUnsigned(bytes, order) ==
    LET b == IF order = "big" THEN bytes ELSE Reverse(bytes)
    IN  [i \in 1..(Len(b) \div 2) |-> b[2 * i - 1] * 256 + b[2 * i]]

(* pack of '<n>s': the string cut or padded with null bytes to n bytes. *)
PackString(data, n) == [i \in 1..n |-> IF i <= Len(data) THEN data[i] ELSE 0]

(* unpack of '<n>s': the n bytes. *)
UnpackString(bytes) == bytes

(* The sizes of the three payload slots: '64s', '32s', '256s'. *)
CtlSlot == 64

InfoSlot == 32

RequestSlot == 256

(* Struct.pack: the fields one after the other, without padding. widths    *)
(* gives the bytes of each integer field; the last field is the string.    *)
RECURSIVE PackFields(_, _, _, _)
PackFields(fields, widths, slot, order) ==
    IF widths = <<>>
    THEN PackString(Head(fields), slot)
    ELSE PackUnsigned(Head(fields), order)
            \o PackFields(Tail(fields), Tail(widths), slot, order)

(* Struct.unpack *)
RECURSIVE UnpackFields(_, _, _)
UnpackFields(bytes, widths, order) ==
    IF widths = <<>>
    THEN <<UnpackString(bytes)>>
    ELSE <<UnpackUnsigned(SubSeq(bytes, 1, Head(widths)), order)>>
            \o UnpackFields(SubSeq(bytes, Head(widths) + 1, Len(bytes)),
                            Tail(widths), order)

(* '=LLLL64s', '=LLL32s' and '>HHLLLQ 256s': the bytes of the integers,   *)
(* the slot and the byte orders the struct may have.                       *)
Structs ==
    [ctl |-> [widths |-> <<4, 4, 4, 4>>, slot |-> CtlSlot,
              orders |-> {"little", "big"}],
     info |-> [widths |-> <<4, 4, 4>>, slot |-> InfoSlot,
               orders |-> {"little", "big"}],
     request |-> [widths |-> <<2, 2, 4, 4, 4, 8>>, slot |-> RequestSlot,
                  orders |-> {"big"}]]

(* SIM_MAGIC, 0xdeadbeef, as an L. *)
MagicL == <<57005, 48879>>

(* A small integer as an L and as a Q. *)
L(n) == <<0, n>>

Q(n) == <<0, 0, 0, n>>

(* A payload of n bytes, none of them null. *)
Bytes(n) == [i \in 1..n |-> 1 + (i % 255)]

(* The field values the model packs. _ctl packs len(data) with data,       *)
(* sendto packs status 0 and len(buf) with buf.                            *)
CtlFields ==
    {<<MagicL, id, L(type), L(Len(data)), data>> :
        id \in {L(42), <<1, 40000>>},
        type \in {SIM_CTL_CONNECT, SIM_CTL_DISCONNECT, SIM_CTL_GET_NODEINFO,
                  SIM_CTL_GET_PORTINFO},
        data \in {<<>>, <<1>>, Bytes(InfoSize), Bytes(CtlSlot)}}

InfoFields ==
    {<<id, qp, issm, nodeid>> :
        id \in {L(42), <<1, 40000>>}, qp \in {L(0), L(1)}, issm \in {L(0), L(1)},
        nodeid \in {<<>>, <<115, 105, 109, 49>>, Bytes(InfoSlot)}}

RequestFields ==
    {<<<<dlid>>, <<slid>>, L(1), L(1), L(0), Q(Len(buf)), buf>> :
        dlid \in {1, 65535}, slid \in {2, 3},
        buf \in {<<>>, Bytes(32), Bytes(RequestSlot)}}

FieldsOf(family) ==
    IF family = "ctl" THEN CtlFields
    ELSE IF family = "info" THEN InfoFields
    ELSE RequestFields

(* pack on one side and unpack on the other, as _ctl, __init__, sendto and *)
(* recvfrom do with the simulator.                                         *)
PackUnpack(family, fields, order) ==
    LET st == Structs[family]
        wire == PackFields(fields, st.widths, st.slot, order)
    IN  /\ order \in st.orders
        /\ codec_in' = [family |-> family, fields |-> fields]
        /\ codec_wire' = wire
        /\ codec_out' = UnpackFields(wire, st.widths, order)
        /\ UNCHANGED <<execVars, portVars, connVars, restOfCodec>>

(* Nothing has been packed. *)
IdleCodec ==
    /\ codec_in = [family |-> "none", fields |-> <<>>]
    /\ codec_wire = <<>>
    /\ codec_out = <<>>

(* The request of the first transactor where two share the socket, and    *)
(* the request of the second.                                              *)
LiveRequest == CHOOSE b \in Requests : TRUE

PeerRequest == CHOOSE b \in Requests : b # LiveRequest

(* A second SimUMAD that has not called _execute. *)
IdlePeer ==
    [pc |-> "idle", buf |-> PeerRequest, path |-> CHOOSE p \in Paths : TRUE,
     rmatch |-> GetReplyMatchKey(PeerRequest), expire |-> 0, retries |-> 0,
     ret |-> Unset, sent |-> <<>>, rx |-> <<>>]

IdleShare == peer = IdlePeer /\ arrivals = <<>>

(* What the specifications that are not about them start from. *)
IdleRest == IdleDev /\ IdleCodec /\ IdleShare

----------------------------------------------------------------------------
(* SimUMAD *)

(* _get_new_TID: (self._tid + 1) % (1 << 32), on the two halves. *)
NextTIDWide(t) ==
    LET low == t[2] + 1 IN
    <<t[1] + (low \div TidHalf), low % TidHalf>>

NextTID(t) ==
    LET low == t[2] + 1
        high == t[1] + (low \div TidHalf)
    IN  <<high % TidHalf, low % TidHalf>>

(* The seeds of _tid the model draws from os.urandom(4): the last value    *)
(* before the wrap and the last value before a carry into the high half.   *)
TidSeeds == {<<TidHalf - 1, TidHalf - 1>>, <<0, TidHalf - 1>>}

(* sendto: one sim_request on the data socket. *)
Sendto(buf) == pkt_tx' = Append(pkt_tx, buf)

(* recvfrom: timeout = wakeat - clock_monotonic(); timeout <= 0. *)
TimedOutNever(wakeat) == FALSE

TimedOut(wakeat) == wakeat - now <= 0

(* recvfrom: what it returns for the datagram it received. *)
Received(d) == <<d.pkt, [DLID |-> d.dlid, SLID |-> d.slid]>>

(* _execute: expire = path.mad_timeout + clock_monotonic(). *)
DeadlineFromOld(path) == path.mad_timeout + expire

Deadline(path) == path.mad_timeout + now

(* _execute: retries == 0. *)
BudgetSpentEarly(r) == r <= 1

BudgetSpent(r) == r = 0

(* _execute: rmatch == self._get_match_key(ret[0]). *)
MatchesAny(rm, r) == TRUE

Matches(rm, r) == rm = GetMatchKey(r[1])

(* _execute: the trace hook is called for this reply. *)
TracedAlways(rm, r) == trace_func

Traced(rm, r) == trace_func /\ ~Matches(rm, r)

(* _execute up to the loop: the first send, the match key, the deadline    *)
(* and the retry budget.                                                   *)
ExecuteWaits(buf, path, sendOnly) ==
    /\ pc = "idle"
    /\ Sendto(buf)
    /\ ex_buf' = buf
    /\ ex_path' = path
    /\ ex_sendOnly' = sendOnly
    /\ pc' = "recv"
    /\ rmatch' = GetReplyMatchKey(buf)
    /\ expire' = Deadline(path)
    /\ retries' = path.retries
    /\ UNCHANGED <<now, pkt_rx, rx_total, tid, trace_func, trace_log, rx_log, woke,
                   ret>>
    /\ UNCHANGED <<portVars, connVars, restVars>>

Execute(buf, path, sendOnly) ==
    /\ pc = "idle"
    /\ Sendto(buf)
    /\ ex_buf' = buf
    /\ ex_path' = path
    /\ ex_sendOnly' = sendOnly
    /\ IF sendOnly
       THEN /\ pc' = "done"
            /\ ret' = Unset
            /\ UNCHANGED <<rmatch, expire, retries>>
       ELSE /\ pc' = "recv"
            /\ rmatch' = GetReplyMatchKey(buf)
            /\ expire' = Deadline(path)
            /\ retries' = path.retries
            /\ UNCHANGED ret
    /\ UNCHANGED <<now, pkt_rx, rx_total, tid, trace_func, trace_log, rx_log, woke>>
    /\ UNCHANGED <<portVars, connVars, restVars>>

(* _execute: ret is None. *)
OnTimeout ==
    /\ IF BudgetSpent(retries)
       THEN /\ pc' = "done"
            /\ ret' = Unset
            /\ UNCHANGED <<pkt_tx, expire, retries>>
       ELSE /\ retries' = retries - 1
            /\ Sendto(ex_buf)
            /\ expire' = Deadline(ex_path)
            /\ pc' = "recv"
            /\ UNCHANGED ret
    /\ UNCHANGED <<pkt_rx, trace_log, rx_log, woke>>

(* The record of what recvfrom returned keeps the first MaxDeliver          *)
(* datagrams: all of them, unless the simulator floods the socket.         *)
Logged(log, e) == IF Len(log) < MaxDeliver THEN Append(log, e) ELSE log

(* recvfrom read the oldest datagram; _execute: ret is not None. *)
OnDataCountsRetry ==
    LET r == Received(Head(pkt_rx)) IN
    /\ pkt_rx' = Tail(pkt_rx)
    /\ woke' = 0
    /\ rx_log' = Logged(rx_log, [d |-> Head(pkt_rx), sends |-> Len(pkt_tx),
                                 woke |-> woke])
    /\ trace_log' = IF Traced(rmatch, r)
                    THEN Append(trace_log, TRACE_UNEXPECTED)
                    ELSE trace_log
    /\ IF Matches(rmatch, r)
       THEN pc' = "done" /\ ret' = r /\ UNCHANGED <<pkt_tx, expire, retries>>
       ELSE /\ pc' = "recv"
            /\ retries' = retries - 1
            /\ Sendto(ex_buf)
            /\ UNCHANGED <<ret, expire>>

OnData ==
    LET r == Received(Head(pkt_rx)) IN
    /\ pkt_rx' = Tail(pkt_rx)
    /\ woke' = 0
    /\ rx_log' = Logged(rx_log, [d |-> Head(pkt_rx), sends |-> Len(pkt_tx),
                                 woke |-> woke])
    /\ trace_log' = IF Traced(rmatch, r)
                    THEN Append(trace_log, TRACE_UNEXPECTED)
                    ELSE trace_log
    /\ IF Matches(rmatch, r)
       THEN pc' = "done" /\ ret' = r
       ELSE pc' = "recv" /\ UNCHANGED ret
    /\ UNCHANGED <<pkt_tx, expire, retries>>

(* poll() reports the data socket readable. *)
ReadableInTime(q) == q # <<>> /\ now < expire

Readable(q) == q # <<>>

(* _execute calls recvfrom(expire): no time left, a datagram already       *)
(* readable, or poll() blocks.                                             *)
Recvfrom ==
    /\ pc = "recv"
    /\ IF TimedOut(expire)
       THEN OnTimeout
       ELSE IF Readable(pkt_rx)
            THEN OnData
            ELSE /\ pc' = "poll"
                 /\ UNCHANGED <<pkt_rx, pkt_tx, trace_log, expire, retries, ret,
                                rx_log, woke>>
    /\ UNCHANGED <<now, rx_total, tid, trace_func, ex_buf, ex_path, ex_sendOnly,
                   rmatch>>
    /\ UNCHANGED <<portVars, connVars, restVars>>

(* poll() returns: a datagram is readable, or the timeout has run out.     *)
PollReturns ==
    /\ pc = "poll"
    /\ IF Readable(pkt_rx)
       THEN OnData
       ELSE now >= expire /\ OnTimeout
    /\ UNCHANGED <<now, rx_total, tid, trace_func, ex_buf, ex_path, ex_sendOnly,
                   rmatch>>
    /\ UNCHANGED <<portVars, connVars, restVars>>

(* _get_new_TID, called on the transactor once _execute has returned. *)
GetNewTID ==
    /\ pc = "done"
    /\ tid[2] # TidSpan
    /\ tid' = NextTID(tid)
    /\ UNCHANGED <<now, pkt_rx, pkt_tx, rx_total, trace_func, trace_log, pc, ex_buf,
                   ex_path, ex_sendOnly, rmatch, expire, retries, ret, rx_log, woke>>
    /\ UNCHANGED <<portVars, connVars, restVars>>

----------------------------------------------------------------------------
(* The environment of the transactor. *)

(* The simulator's datagram reaches the data socket: before the call      *)
(* (a stale datagram) or during it.                                        *)
Deliver(d) ==
    /\ pc # "done"
    /\ rx_total < MaxDeliver
    /\ rx_total' = rx_total + 1
    /\ pkt_rx' = Append(pkt_rx, d)
    /\ woke' = IF pc = "poll" /\ pkt_rx = <<>> /\ now < expire
               THEN Len(pkt_tx)
               ELSE woke
    /\ UNCHANGED <<now, pkt_tx, tid, trace_func, trace_log, pc, ex_buf, ex_path,
                   ex_sendOnly, rmatch, expire, retries, ret, rx_log>>
    /\ UNCHANGED <<portVars, connVars, restVars>>

(* The monotonic clock advances during the call, which starts at tick 0. *)
Tick ==
    /\ pc \in {"recv", "poll"}
    /\ now < MaxTime
    /\ now' = now + 1
    /\ UNCHANGED <<pkt_rx, pkt_tx, rx_total, tid, trace_func, trace_log, pc, ex_buf,
                   ex_path, ex_sendOnly, rmatch, expire, retries, ret, rx_log, woke>>
    /\ UNCHANGED <<portVars, connVars, restVars>>

(* The simulator sends a datagram whenever the transactor has emptied the  *)
(* data socket: a stream without end, which is not counted.                *)
Flood(d) ==
    /\ pc \in {"recv", "poll"}
    /\ pkt_rx = <<>>
    /\ pkt_rx' = Append(pkt_rx, d)
    /\ woke' = IF pc = "poll" /\ pkt_rx = <<>> /\ now < expire
               THEN Len(pkt_tx)
               ELSE woke
    /\ UNCHANGED <<now, pkt_tx, rx_total, tid, trace_func, trace_log, pc, ex_buf,
                   ex_path, ex_sendOnly, rmatch, expire, retries, ret, rx_log>>
    /\ UNCHANGED <<portVars, connVars, restVars>>

(* The monotonic clock advances without end during the call. The           *)
(* transactor is scheduled before a second tick passes its deadline: a     *)
(* later wake-up only moves the next deadline later by as much.            *)
TickLive ==
    /\ pc \in {"recv", "poll"}
    /\ now <= expire
    /\ now' = now + 1
    /\ UNCHANGED <<pkt_rx, pkt_tx, rx_total, tid, trace_func, trace_log, pc, ex_buf,
                   ex_path, ex_sendOnly, rmatch, expire, retries, ret, rx_log, woke>>
    /\ UNCHANGED <<portVars, connVars, restVars>>

----------------------------------------------------------------------------
(* A second SimUMAD. Its poll object is registered on conn._pkt_sock, the  *)
(* socket of the first: its recvfrom reads the same queue. Its _execute is *)
(* the same code, on its own buf, path, rmatch, expire and retries.        *)

(* recvfrom: self._sock.recv(512) takes the oldest datagram off the socket. *)
AfterPeek(q) == q

AfterRecv(q) == Tail(q)

(* _execute up to the loop, sendOnly=False. *)
PeerExecute(buf, path) ==
    [pc |-> "recv", buf |-> buf, path |-> path,
     rmatch |-> GetReplyMatchKey(buf), expire |-> Deadline(path),
     retries |-> path.retries, ret |-> Unset, sent |-> <<buf>>, rx |-> <<>>]

(* _execute: ret is None. *)
PeerOnTimeout(p) ==
    IF BudgetSpent(p.retries)
    THEN [p EXCEPT !.pc = "done", !.ret = Unset]
    ELSE [p EXCEPT !.retries = @ - 1, !.sent = Append(@, p.buf),
                   !.expire = Deadline(p.path), !.pc = "recv"]

(* _execute: ret is not None. *)
PeerOnData(p, d) ==
    IF Matches(p.rmatch, Received(d))
    THEN [p EXCEPT !.rx = Append(@, d), !.pc = "done", !.ret = Received(d)]
    ELSE [p EXCEPT !.rx = Append(@, d), !.pc = "recv"]

(* What a step of the second transactor leaves alone when it reads the    *)
(* socket, and when it does not.                                           *)
PeerRead ==
    /\ peer' = PeerOnData(peer, Head(pkt_rx))
    /\ pkt_rx' = AfterRecv(pkt_rx)
    /\ woke' = 0

PeerNoRead(p) ==
    /\ peer' = p
    /\ UNCHANGED <<pkt_rx, woke>>

PeerFrame ==
    /\ UNCHANGED <<now, pkt_tx, rx_total, tid, trace_func, trace_log, pc, ex_buf,
                   ex_path, ex_sendOnly, rmatch, expire, retries, ret, rx_log>>
    /\ UNCHANGED <<portVars, connVars, environ, devVars, codecVars, arrivals>>

Execute2(buf, path) ==
    /\ peer.pc = "idle"
    /\ PeerNoRead(PeerExecute(buf, path))
    /\ PeerFrame

Recvfrom2 ==
    /\ peer.pc = "recv"
    /\ IF TimedOut(peer.expire)
       THEN PeerNoRead(PeerOnTimeout(peer))
       ELSE IF Readable(pkt_rx)
            THEN PeerRead
            ELSE PeerNoRead([peer EXCEPT !.pc = "poll"])
    /\ PeerFrame

PollReturns2 ==
    /\ peer.pc = "poll"
    /\ IF Readable(pkt_rx)
       THEN PeerRead
       ELSE now >= peer.expire /\ PeerNoRead(PeerOnTimeout(peer))
    /\ PeerFrame

(* The simulator's datagram reaches the shared data socket. *)
Arrive(d) ==
    /\ pc # "done"
    /\ rx_total < MaxDeliver
    /\ rx_total' = rx_total + 1
    /\ pkt_rx' = Append(pkt_rx, d)
    /\ woke' = IF pc = "poll" /\ pkt_rx = <<>> /\ now < expire
               THEN Len(pkt_tx)
               ELSE woke
    /\ arrivals' = Append(arrivals,
                          [d |-> d,
                           early |-> pc \in {"recv", "poll"} /\ now < expire,
                           blocked |-> pc = "poll" /\ pkt_rx = <<>> /\ now < expire])
    /\ UNCHANGED <<now, pkt_tx, tid, trace_func, trace_log, pc, ex_buf, ex_path,
                   ex_sendOnly, rmatch, expire, retries, ret, rx_log>>
    /\ UNCHANGED <<portVars, connVars, environ, devVars, codecVars, peer>>

----------------------------------------------------------------------------
(* The transactor: one SimUMAD on the session's data socket. *)

InitExec ==
    /\ now = 0
    /\ pkt_rx = <<>>
    /\ pkt_tx = <<>>
    /\ rx_total = 0
    /\ tid \in TidSeeds
    /\ trace_func \in BOOLEAN
    /\ trace_log = <<>>
    /\ pc = "idle"
    /\ ex_buf = CHOOSE b \in Requests : TRUE
    /\ ex_path = CHOOSE p \in Paths : TRUE
    /\ ex_sendOnly = FALSE
    /\ rmatch = GetReplyMatchKey(CHOOSE b \in Requests : TRUE)
    /\ expire = 0
    /\ retries = 0
    /\ ret = Unset
    /\ rx_log = <<>>
    /\ woke = 0

Init ==
    /\ InitExec /\ tid = <<TidHalf - 1, TidHalf - 1>> /\ IdlePort /\ LiveSession
    /\ IdleRest

Next ==
    \/ \E b \in Requests, p \in Paths, s \in BOOLEAN : Execute(b, p, s)
    \/ Recvfrom
    \/ PollReturns
    \/ GetNewTID
    \/ \E d \in Datagrams : Deliver(d)
    \/ Tick

Spec == Init /\ [][Next]_vars

(* The same transactor without a trace hook, from either seed of _tid. *)
InitTid == InitExec /\ ~trace_func /\ IdlePort /\ LiveSession /\ IdleRest

SpecTid == InitTid /\ [][Next]_vars

(* Two transactors on the session's data socket, neither with a trace     *)
(* hook; the second may call _execute at any time, or never. Their paths   *)
(* have the shortest timeout and at most one retry.                        *)
SharePaths == {p \in Paths : p.mad_timeout = 1 /\ p.retries <= 1}

InitShare ==
    /\ InitExec /\ tid = <<TidHalf - 1, TidHalf - 1>> /\ ~trace_func
    /\ IdlePort /\ LiveSession /\ IdleRest

NextShare ==
    \/ \E p \in SharePaths : Execute(LiveRequest, p, FALSE)
    \/ Recvfrom
    \/ PollReturns
    \/ \E p \in SharePaths : Execute2(PeerRequest, p)
    \/ Recvfrom2
    \/ PollReturns2
    \/ \E d \in Datagrams : Arrive(d)
    \/ TickLive

SpecShare == InitShare /\ [][NextShare]_vars

(* The transactor under a stream of datagrams without end, the clock       *)
(* advancing and the thread in _execute running: recvfrom and poll() are   *)
(* not held up for ever once they can return. One request is enough: the   *)
(* reply to the other one is the mismatched reply.                         *)
InitLive ==
    /\ InitExec /\ tid = <<TidHalf - 1, TidHalf - 1>> /\ ~trace_func
    /\ IdlePort /\ LiveSession /\ IdleRest

NextLive ==
    \/ \E p \in Paths, s \in BOOLEAN : Execute(LiveRequest, p, s)
    \/ Recvfrom
    \/ PollReturns
    \/ \E d \in Datagrams : Flood(d)
    \/ TickLive

Fairness == WF_vars(TickLive) /\ WF_vars(Recvfrom) /\ WF_vars(PollReturns)

SpecLive == InitLive /\ [][NextLive]_vars /\ Fairness

----------------------------------------------------------------------------
(* The port: one SimEndPort read over time, the transactor idle. *)

InitPortSpec ==
    /\ InitExec /\ tid = <<0, TidHalf - 1>> /\ ~trace_func /\ InitPort
    /\ LiveSession /\ IdleRest

NextPort ==
    \/ \E f \in Fields, r \in PortInfos : ReadAttr(f, r)
    \/ \E r \in PortInfos : ReadGids(r)
    \/ \E r \in PortInfos : ReadSaPath(r)
    \/ \E ks \in PkeyLists : SetPkeys(ks)
    \/ TickWall

SpecPort == InitPortSpec /\ [][NextPort]_vars

----------------------------------------------------------------------------
(* The session: the process from the import of rdma.sim to its exit. *)

InitConnSpec ==
    /\ InitExec /\ tid = <<0, TidHalf - 1>> /\ ~trace_func /\ IdlePort /\ InitConn
    /\ IdleRest

NextConn ==
    \/ ImportWithoutServer
    \/ \E w \in EarlyFailures, p \in EphemeralPorts : ConnectFailsEarly(w, p)
    \/ \E p \in EphemeralPorts : ConnectSend(p)
    \/ \E id \in ClientIds : ConnectReply(id)
    \/ ConnectReplyFails
    \/ DelFailed
    \/ \E t \in {SIM_CTL_GET_NODEINFO, SIM_CTL_GET_PORTINFO} : CtlCall(t)
    \/ CtlReturns
    \/ SimReplies
    \/ SimLoses
    \/ PktUse
    \/ Exit
    \/ DelReturns

SpecConn == InitConnSpec /\ [][NextConn]_vars

----------------------------------------------------------------------------
(* The device: one SimDevice opened on the running session. *)

InitDev ==
    /\ InitExec /\ tid = <<0, TidHalf - 1>> /\ ~trace_func /\ IdlePort
    /\ LiveSession /\ IdleRest

NextDev ==
    \/ \E r \in NodeInfos : OpenDevice(r)
    \/ \E q \in DevProperties : DevRead(q)
    \/ \E k \in 1..(MaxNumPorts + 1) : DevPortRefresh(k)

SpecDev == InitDev /\ [][NextDev]_vars

----------------------------------------------------------------------------
(* The structs: field values packed and unpacked. *)

InitCodec == InitDev

NextCodec ==
    \E family \in {"ctl", "info", "request"} :
        \E fields \in FieldsOf(family), order \in {"little", "big"} :
            PackUnpack(family, fields, order)

SpecCodec == InitCodec /\ [][NextCodec]_vars

----------------------------------------------------------------------------
(* Properties of _execute, checked under Spec, and of the TID counter,     *)
(* checked under SpecTid.                                                  *)

Last(q) == q[Len(q)]

(* The datagram of this entry of rx_log is the reply to the buffer sent. *)
IsReply(e) == GetMatchKey(e.d.pkt) = GetReplyMatchKey(ex_buf)

Returned == pc = "done" /\ ~ex_sendOnly

(* C1: when _execute(buf, path, sendOnly=False) has returned and recvfrom  *)
(* never gave it a datagram (in particular when none ever became readable  *)
(* on the data socket), it has sent buf exactly path.retries + 1 times     *)
(* and nothing else, and it returned None.                                 *)
C1_NoReplySendsRetriesPlusOne ==
    (Returned /\ rx_log = <<>>) =>
        /\ ret = Unset
        /\ Len(pkt_tx) = ex_path.retries + 1
        /\ \A i \in 1..Len(pkt_tx) : pkt_tx[i] = ex_buf

(* C1's case: the largest retry count, nothing ever reached the socket. *)
C1_Witness ==
    /\ Returned
    /\ rx_total = 0
    /\ ex_path.retries = MaxRetries
    /\ Len(pkt_tx) = MaxRetries + 1
    /\ ret = Unset

(* C2: when _execute received n replies with another match key and then    *)
(* one with the expected key, it returned that last reply, and an          *)
(* installed trace hook was called exactly n times, each time with         *)
(* TRACE_UNEXPECTED.                                                       *)
C2_MismatchesTracedOnce ==
    (/\ Returned
     /\ rx_log # <<>>
     /\ IsReply(Last(rx_log))
     /\ \A i \in 1..(Len(rx_log) - 1) : ~IsReply(rx_log[i])) =>
        /\ ret = <<Last(rx_log).d.pkt,
                   [DLID |-> Last(rx_log).d.dlid, SLID |-> Last(rx_log).d.slid]>>
        /\ trace_func => Len(trace_log) = Len(rx_log) - 1
        /\ \A i \in 1..Len(trace_log) : trace_log[i] = TRACE_UNEXPECTED

(* C2's case: one mismatched reply, then the matching one, both before the *)
(* first deadline, with a hook installed.                                  *)
C2_Witness ==
    /\ Returned
    /\ trace_func
    /\ Len(rx_log) = 2
    /\ ~IsReply(rx_log[1])
    /\ IsReply(rx_log[2])
    /\ rx_log[1].sends = 1 /\ rx_log[2].sends = 1
    /\ trace_log = <<TRACE_UNEXPECTED>>
    /\ ret # Unset

(* C3: what _execute(sendOnly=False) returns is None or a received         *)
(* (payload, path) pair whose match key is the one expected for buf.       *)
C3_OnlyMatchingReplyReturned ==
    Returned =>
        \/ ret = Unset
        \/ /\ rx_log # <<>>
           /\ ret[1] = Last(rx_log).d.pkt
           /\ GetMatchKey(ret[1]) = GetReplyMatchKey(ex_buf)

(* C3's case: a reply returned after a timeout, a resend and a mismatched  *)
(* reply.                                                                  *)
C3_Witness ==
    /\ Returned
    /\ ret # Unset
    /\ Len(pkt_tx) >= 2
    /\ Len(rx_log) >= 2

TidSucc(t, u) ==
    IF t = <<TidHalf - 1, TidHalf - 1>> THEN u = <<0, 0>>
    ELSE IF t[2] = TidHalf - 1 THEN u = <<t[1] + 1, 0>>
    ELSE u = <<t[1], t[2] + 1>>

TidInRange(t) == t[1] \in 0..(TidHalf - 1) /\ t[2] \in 0..(TidHalf - 1)

(* C10: the counter is always in [0, 2^32); a step that changes it is a    *)
(* call of _get_new_TID, which stores the successor modulo 2^32 (0 after   *)
(* 2^32 - 1) and touches nothing else; every step of sendto, recvfrom and  *)
(* _execute leaves the counter as it is.                                   *)
C10_TidIncrementsMod32 ==
    /\ TidInRange(tid)
    /\ [][/\ TidInRange(tid')
          /\ tid' # tid =>
                /\ TidSucc(tid, tid')
                /\ UNCHANGED <<now, pkt_rx, pkt_tx, rx_total, trace_func, trace_log,
                               pc, ex_buf, ex_path, ex_sendOnly, rmatch, expire,
                               retries, ret, rx_log, woke>>
          /\ (pc = "done" /\ pc' = "done" /\ tid[2] # TidSpan) => tid' # tid]_vars

(* C10's case: _execute ran, with a resend, while the counter was at       *)
(* 2^32 - 1, and the call of _get_new_TID after it wrapped the counter to  *)
(* 0.                                                                      *)
C10_Witness ==
    /\ tid = <<0, 0>>
    /\ pc = "done"
    /\ ~ex_sendOnly
    /\ Len(pkt_tx) >= 2

----------------------------------------------------------------------------
(* Properties of SimEndPort, checked under SpecPort.                       *)

Accessed == port_last.op # "init"

(* C5, as claimed: a read (a call of _get) within 1 second of the prior    *)
(* read issues no GET_PORTINFO, and a read more than 1 second after the    *)
(* prior read issues one.                                                  *)
C5_AsClaimed ==
    (Accessed /\ port_last.got /\ port_last.found.had_get) =>
        IF port_last.found.near_get
        THEN port_last.ctl = <<>>
        ELSE port_last.ctl = <<GetPortInfoCall>>

(* C5, amended: the second counts from the last read that issued a         *)
(* GET_PORTINFO. A read within 1 second of it issues none; a read more     *)
(* than 1 second after it, and the first read of the port, issues exactly  *)
(* one, for this port index; so does every read more than 1 second after   *)
(* the prior read.                                                         *)
C5_TTLFromLastRefresh ==
    (Accessed /\ port_last.got) =>
        /\ IF port_last.found.near_refresh
           THEN port_last.ctl = <<>>
           ELSE /\ Len(port_last.ctl) = 1
                /\ port_last.ctl[1].type = SIM_CTL_GET_PORTINFO
                /\ port_last.ctl[1].data = <<port_id>>
        /\ (port_last.found.had_get /\ ~port_last.found.near_get) =>
               port_last.ctl # <<>>

(* C5's case: a read within 1 second of the prior read, more than 1 second *)
(* after the last refresh: it issues a GET_PORTINFO.                       *)
C5_Witness ==
    /\ Accessed
    /\ port_last.op = "get"
    /\ port_last.found.near_get
    /\ port_last.found.had_refresh
    /\ ~port_last.found.near_refresh
    /\ Len(port_last.ctl) = 1

(* C8: an access of sa_path that finds no stored path raises RDMAError and *)
(* stores nothing when the P_Key table holds neither default P_Key, so     *)
(* every access of such a port raises; when it holds one, the access       *)
(* returns a path with the index of that P_Key (the full-membership one    *)
(* first) and stores it. An access that finds a stored path returns the    *)
(* path stored first and issues no control call, stale cache or not.       *)
C8_SaPathErrorOrMemoized ==
    /\ cached_sa_path # Unset => cached_sa_path = first_sa
    /\ (Accessed /\ port_last.op = "sa_path") =>
          IF port_last.found.had_sa
          THEN /\ port_last.raised = ""
               /\ port_last.ret = first_sa
               /\ port_last.ctl = <<>>
          ELSE IF port_last.found.keyed
               THEN /\ port_last.raised = ""
                    /\ port_last.ret # <<>>
                    /\ port_last.ret = cached_sa_path
                    /\ pkeys[port_last.ret[1].pkey_index + 1]
                           \in {PKEY_DEFAULT, PKEY_PARTIAL_DEFAULT}
               ELSE /\ port_last.raised = RDMAError
                    /\ port_last.ret = <<>>
                    /\ cached_sa_path = Unset

(* C8's case: two accesses raised, then the table was given a default      *)
(* P_Key and the path was built; a later access, with the port cache       *)
(* stale, returns the stored path without a control call.                  *)
C8_Witness ==
    /\ Accessed
    /\ port_last.op = "sa_path"
    /\ sa_errors = 2
    /\ port_last.found.had_sa
    /\ port_last.found.stale
    /\ port_last.ret = first_sa
    /\ port_last.ctl = <<>>

(* The interface identifier of a port: the node GUID, its last byte        *)
(* replaced by the port index.                                             *)
InterfaceId == SubSeq(node_guid, 1, 7) \o <<port_id>>

(* C9: the gids are the single default-prefixed identifier when the cached *)
(* GID prefix they were built from is the default prefix, and otherwise    *)
(* the custom-prefixed identifier followed by the default-prefixed one;    *)
(* the prefix is the one cached when gids was first read.                  *)
C9_GidsFromCachedPrefix ==
    /\ gids # None =>
          /\ gids_prefix # Unset
          /\ IF gids_prefix[1] = GID_DEFAULT_PREFIX
             THEN gids = <<GID_DEFAULT_PREFIX \o InterfaceId>>
             ELSE gids = <<gids_prefix[1] \o InterfaceId,
                           GID_DEFAULT_PREFIX \o InterfaceId>>
    /\ (Accessed /\ port_last.op = "gids") =>
          /\ port_last.ret = <<gids>>
          /\ ~port_last.found.had_gids => gids_prefix = <<port_info.GIDPrefix>>

(* C9's case: the first read of gids on port 1 with a custom prefix        *)
(* cached: two identifiers, the custom-prefixed one first.                 *)
C9_Witness ==
    /\ Accessed
    /\ port_last.op = "gids"
    /\ ~port_last.found.had_gids
    /\ port_id = 1
    /\ port_info.GIDPrefix # GID_DEFAULT_PREFIX
    /\ Len(gids) = 2
    /\ gids[1] = port_info.GIDPrefix \o SubSeq(node_guid, 1, 7) \o <<1>>

----------------------------------------------------------------------------
(* Properties of SimConnection, checked under SpecConn.                    *)

(* The control envelopes of one opcode sent so far. *)
Sent(type) == {i \in 1..Len(ctl_log) : ctl_log[i].type = type}

SocketsReleased == ctl_sock # "connected" /\ pkt_sock \notin {"bound", "connected"}

(* C6, as claimed: a process that set out to make a session has, when it   *)
(* has exited, sent DISCONNECT exactly once, whether or not the connect    *)
(* handshake completed.                                                    *)
C6_AsClaimed ==
    (proc = "exited" /\ env_set) => Cardinality(Sent(SIM_CTL_DISCONNECT)) = 1

(* C6, amended: DISCONNECT is never sent twice. It is sent exactly once,   *)
(* as the last control envelope and before either socket is released, by   *)
(* every process that sent CONNECT: at exit when the handshake completed,  *)
(* when the failed object is released when it did not. A process whose     *)
(* SimConnection failed before CONNECT was sent sends no DISCONNECT.       *)
C6_DisconnectOnceAfterConnect ==
    /\ Cardinality(Sent(SIM_CTL_DISCONNECT)) <= 1
    /\ \A i \in Sent(SIM_CTL_DISCONNECT) :
          /\ i = Len(ctl_log)
          /\ Sent(SIM_CTL_CONNECT) = {1}
          /\ proc \in {"deleting", "exited"}
    /\ proc = "deleting" =>
          /\ Sent(SIM_CTL_DISCONNECT) # {}
          /\ ctl_sock = "connected"
          /\ pkt_sock \in {"bound", "connected"}
    /\ proc = "exited" =>
          /\ SocketsReleased
          /\ Cardinality(Sent(SIM_CTL_DISCONNECT))
                = Cardinality(Sent(SIM_CTL_CONNECT))
    /\ proc \notin {"deleting", "exited"} => ~SocketsReleased \/ ctl_log = <<>>

(* C6's case: the handshake did not complete (CONNECT was sent, its reply  *)
(* never decoded), the process has exited and DISCONNECT was sent once.    *)
C6_Witness ==
    /\ proc = "exited"
    /\ assigned_id = Unset
    /\ Sent(SIM_CTL_CONNECT) = {1}
    /\ Sent(SIM_CTL_DISCONNECT) = {2}
    /\ SocketsReleased

(* C7: once the handshake has completed, _client_id is the id of the       *)
(* simulator's reply and the data socket's remote port is SIM_SERVER_PORT  *)
(* + that id + 1, and no later step (control call, use of the data socket, *)
(* teardown) changes either.                                               *)
C7_ClientIdFixedAfterHandshake ==
    /\ [](assigned_id # Unset =>
             /\ client_id = assigned_id
             /\ pkt_peer = <<SIM_SERVER_PORT + assigned_id[1] + 1>>
             /\ pkt_sock \in {"connected", "closed"})
    /\ [][assigned_id # Unset =>
             /\ client_id' = client_id
             /\ pkt_peer' = pkt_peer
             /\ assigned_id' = assigned_id]_vars
    /\ [](\A i \in 1..Len(ctl_log) :
             ctl_log[i].type # SIM_CTL_CONNECT =>
                 ctl_log[i].client_id = client_id[1])

(* C7's case: the simulator assigned 42 to a client that proposed its      *)
(* local port; control calls and datagrams followed; the data socket       *)
(* points at port 7070 + 43.                                               *)
C7_Witness ==
    /\ assigned_id = <<42>>
    /\ candidate_id # <<42>>
    /\ client_id = <<42>>
    /\ pkt_peer = <<7113>>
    /\ Len(ctl_log) >= 3
    /\ pkt_count >= 1
    /\ proc = "exited"

(* C11: when IBSIM_SERVER_NAME is absent from the environment (and so when *)
(* the whole configuration is), the import makes no session and sends      *)
(* nothing, then and ever after: conn stays None, no socket is opened, no   *)
(* envelope and no datagram is sent and no exit hook is registered.        *)
C11_InertWithoutEnvironment ==
    environ.IBSIM_SERVER_NAME = Unset =>
        /\ conn = None
        /\ ctl_sock = "none"
        /\ pkt_sock = "none"
        /\ client_id = Unset
        /\ ctl_log = <<>>
        /\ ctl_reply = "none"
        /\ pkt_count = 0
        /\ atexit_hooks = <<>>

(* C11's case: nothing of the configuration is set, the module was         *)
(* imported and the process ran to its exit.                               *)
C11_Witness ==
    /\ environ = [IBSIM_SERVER_NAME |-> Unset, IBSIM_SERVER_PORT |-> Unset,
                  SIM_HOST |-> Unset]
    /\ proc = "exited"
    /\ conn = None

(* The process is inside a control call, blocked in recv. *)
InCtl == proc \in {"connecting", "calling", "deleting"}

(* C18: every control call sends one envelope and receives once: an        *)
(* envelope is sent only when no call is outstanding, a reply is received  *)
(* only for the outstanding call, and the envelopes sent outnumber the     *)
(* replies received by one inside a call and by none outside. When the     *)
(* reply is lost the call stays blocked for ever: nothing is resent,        *)
(* nothing is returned and the process moves no further.                   *)
C18_CtlOneSendOneRecvNoRetry ==
    /\ [](Len(ctl_log) = ctl_recvd + (IF InCtl THEN 1 ELSE 0))
    /\ [][ctl_log' # ctl_log =>
             /\ Len(ctl_log') = Len(ctl_log) + 1
             /\ SubSeq(ctl_log', 1, Len(ctl_log)) = ctl_log
             /\ ~InCtl
             /\ ctl_recvd' = ctl_recvd]_vars
    /\ [][ctl_recvd' # ctl_recvd =>
             /\ ctl_recvd' = ctl_recvd + 1
             /\ InCtl
             /\ ctl_reply = "ready"
             /\ ctl_log' = ctl_log]_vars
    /\ [][ctl_reply = "lost" =>
             /\ InCtl
             /\ UNCHANGED <<proc, ctl_log, ctl_recvd, ctl_reply>>]_vars

(* C18's case: the session was made, a later control call sent its         *)
(* envelope and the reply to it was lost.                                  *)
C18_Witness ==
    /\ proc = "calling"
    /\ ctl_reply = "lost"
    /\ Len(ctl_log) = 2
    /\ ctl_recvd = 1

----------------------------------------------------------------------------
(* Properties of SimDevice, checked under SpecDev.                         *)

(* C12: an open device has issued exactly one GET_NODEINFO, and its port   *)
(* entries are the single index 0 for a switch and the indices 1 to        *)
(* numPorts, in order, for any other node type; before the device is       *)
(* opened there is neither; and no step after the opening changes the      *)
(* entries or the node information they were made from.                    *)
C12_OnePortEntryPerPort ==
    /\ [](IF dev_open
          THEN /\ Cardinality(Sent(SIM_CTL_GET_NODEINFO)) = 1
               /\ IF node_info.nodeType = NODE_SWITCH
                  THEN end_ports = <<0>>
                  ELSE /\ Len(end_ports) = node_info.numPorts
                       /\ \A i \in 1..node_info.numPorts : end_ports[i] = i
          ELSE end_ports = <<>> /\ ctl_log = <<>>)
    /\ [][dev_open => UNCHANGED <<dev_open, node_info, end_ports>>]_vars

(* C12's case: a switch that reports several ports was opened, its one     *)
(* entry is port 0, and that port was refreshed afterwards.                *)
C12_Witness ==
    /\ dev_open
    /\ node_info.nodeType = NODE_SWITCH
    /\ node_info.numPorts = MaxNumPorts
    /\ end_ports = <<0>>
    /\ Len(ctl_log) >= 2
    /\ dev_last.property = "node_type"

----------------------------------------------------------------------------
(* Properties of the structs, checked under SpecCodec.                     *)

Packed == codec_in.family # "none"

(* The payload of a tuple of field values: its last field. *)
Payload(fields) == fields[Len(fields)]

(* The integer fields of a tuple of field values. *)
IntegerFields(fields) == SubSeq(fields, 1, Len(fields) - 1)

(* C13, as claimed: unpacking what was packed gives back the field values, *)
(* the payload included.                                                   *)
C13_AsClaimed == Packed => codec_out = codec_in.fields

(* C13, amended: the packed bytes have the size of the struct; unpacking   *)
(* gives back every integer field, and the payload padded with null bytes  *)
(* to the size of its slot, so a payload of exactly the slot's size comes  *)
(* back as it was and a shorter one is the first bytes of what comes back. *)
C13_RoundTripPadded ==
    Packed =>
        LET st == Structs[codec_in.family]
            sent == Payload(codec_in.fields)
            got == Payload(codec_out)
        IN  /\ Len(codec_out) = Len(codec_in.fields)
            /\ IntegerFields(codec_out) = IntegerFields(codec_in.fields)
            /\ Len(got) = st.slot
            /\ SubSeq(got, 1, Len(sent)) = sent
            /\ \A i \in (Len(sent) + 1)..st.slot : got[i] = 0
            /\ Len(sent) = st.slot => codec_out = codec_in.fields
            /\ Len(codec_wire) = st.slot
                  + (IF codec_in.family = "ctl" THEN 16
                     ELSE IF codec_in.family = "info" THEN 12 ELSE 24)

(* C13's case: a 32-byte buffer in a data envelope comes back as 256       *)
(* bytes, the fields before it unchanged.                                  *)
C13_Witness ==
    /\ Packed
    /\ codec_in.family = "request"
    /\ Len(Payload(codec_in.fields)) = 32
    /\ Len(Payload(codec_out)) = RequestSlot
    /\ codec_out[1] = <<65535>>
    /\ codec_out[6] = Q(32)

----------------------------------------------------------------------------
(* More properties of _execute, checked under Spec.                        *)

InFlight == pc \in {"recv", "poll"}

(* C14: a step in which _execute receives a reply with another match key   *)
(* leaves the retry budget and the deadline as they are, sends nothing and *)
(* goes back to waiting; and at no time has _execute sent more than        *)
(* path.retries + 1 times.                                                 *)
C14_MismatchKeepsBudgetAndDeadline ==
    /\ [](Len(pkt_tx) <= ex_path.retries + 1)
    /\ [][(Len(rx_log') = Len(rx_log) + 1 /\ ~IsReply(Last(rx_log'))) =>
             /\ retries' = retries
             /\ expire' = expire
             /\ pkt_tx' = pkt_tx
             /\ ret' = ret
             /\ pc' = "recv"]_vars

(* C14's case: two mismatched replies were received in the first wait: the *)
(* budget is whole, the deadline is the first one and one send was made.   *)
C14_Witness ==
    /\ InFlight
    /\ Len(rx_log) = 2
    /\ ~IsReply(rx_log[1]) /\ ~IsReply(rx_log[2])
    /\ ex_path.retries = MaxRetries
    /\ retries = MaxRetries
    /\ expire = ex_path.mad_timeout
    /\ now > 0
    /\ Len(pkt_tx) = 1

(* C16: a step of _execute that sends while it is in flight is a receive   *)
(* timeout with budget left: the deadline has passed, the budget goes down *)
(* by one, the one thing sent is the original buffer, nothing is received, *)
(* no hook is called, the new deadline is the time of the resend plus      *)
(* path.mad_timeout and the loop goes on. A timeout ends the call with     *)
(* None only when the budget is 0, and then nothing is sent.               *)
C16_ResendResetsDeadline ==
    /\ [][(pc # "idle" /\ pkt_tx' # pkt_tx) =>
             /\ InFlight
             /\ now >= expire
             /\ retries > 0
             /\ retries' = retries - 1
             /\ pkt_tx' = Append(pkt_tx, ex_buf)
             /\ now' = now
             /\ expire' = now + ex_path.mad_timeout
             /\ pc' = "recv"
             /\ UNCHANGED <<pkt_rx, rx_log, trace_log, ret, ex_buf, ex_path>>]_vars
    /\ [][(InFlight /\ pc' = "done" /\ rx_log' = rx_log) =>
             /\ now >= expire
             /\ retries = 0
             /\ ret' = Unset
             /\ pkt_tx' = pkt_tx]_vars
    /\ [](InFlight => retries = ex_path.retries - (Len(pkt_tx) - 1))

(* C16's case: the first timeout was seen late, after more than the whole  *)
(* timeout had passed again; the resend has just been made and its         *)
(* deadline is a full timeout away.                                        *)
C16_Witness ==
    /\ pc = "recv"
    /\ Len(pkt_tx) = 2
    /\ retries = ex_path.retries - 1
    /\ now > 2 * ex_path.mad_timeout
    /\ expire = now + ex_path.mad_timeout

(* C17: _execute with sendOnly=True is one step that sends the buffer once *)
(* and returns None: it computes no match key, no deadline and no budget,  *)
(* reads nothing from the data socket, whatever is readable there, and     *)
(* calls no hook.                                                          *)
C17_SendOnlySendsOnce ==
    /\ []((pc = "done" /\ ex_sendOnly) =>
             /\ pkt_tx = <<ex_buf>>
             /\ ret = Unset
             /\ rx_log = <<>>
             /\ trace_log = <<>>
             /\ Len(pkt_rx) = rx_total)
    /\ [][(pc = "idle" /\ pc' # "idle" /\ ex_sendOnly') =>
             /\ pc' = "done"
             /\ UNCHANGED <<rmatch, expire, retries, pkt_rx, trace_log, now>>]_vars

(* C17's case: a send-only call returned with a hook installed, two        *)
(* datagrams readable and left on the socket, and the match key of its     *)
(* buffer not computed.                                                    *)
C17_Witness ==
    /\ pc = "done"
    /\ ex_sendOnly
    /\ trace_func
    /\ Len(pkt_rx) = 2
    /\ rmatch # GetReplyMatchKey(ex_buf)
    /\ Len(pkt_tx) = 1

----------------------------------------------------------------------------
(* More properties of SimEndPort, checked under SpecPort.                  *)

(* C15: an access that calls _get issues a GET_PORTINFO control call       *)
(* exactly when the time of the access is more than 1 second after the     *)
(* cache time. Then the cached fields become one whole reply and the cache *)
(* time becomes the time of the access; otherwise the cached fields and    *)
(* the cache time stay as they are. The first access of a port finds the   *)
(* cache time more than 1 second ago.                                      *)
C15_RefreshExactlyWhenStale ==
    /\ [][(/\ UNCHANGED <<wall, pkeys>>
            /\ port_last'.op # "init"
            /\ port_last'.got) =>
             IF wall > port_info_age + TicksPerSecond
             THEN /\ port_last'.ctl = <<GetPortInfoCall>>
                  /\ port_info' \in PortInfos
                  /\ port_info_age' = wall
             ELSE /\ port_last'.ctl = <<>>
                  /\ UNCHANGED <<port_info, port_info_age>>]_vars
    /\ [](last_get = Unset => wall > port_info_age + TicksPerSecond)
    /\ [](last_get # Unset => port_info \in PortInfos /\ port_info_age <= wall)

(* C15's case: a read exactly 1 second after the cache time: no control    *)
(* call, and the cache time is still 1 second ago.                         *)
C15_Witness ==
    /\ Accessed
    /\ port_last.op = "get"
    /\ port_last.ctl = <<>>
    /\ last_get = <<wall>>
    /\ wall = port_info_age + TicksPerSecond
    /\ port_info \in PortInfos

----------------------------------------------------------------------------
(* Termination of _execute, checked under SpecLive.                        *)

(* C20: with the clock advancing, every call of _execute that has entered  *)
(* its loop returns, with a reply that matches or with None, whatever the  *)
(* simulator sends and however long it goes on sending.                    *)
C20_ExecuteReturns ==
    /\ InFlight ~> pc = "done"
    /\ []((pc = "done" /\ ~ex_sendOnly /\ ret # Unset) => Matches(rmatch, ret))

(* C20's case: the call returned None, its budget spent, after a stream of *)
(* mismatched replies longer than the record of replies, which is full of  *)
(* them, and with the next one already on the socket.                      *)
C20_Witness ==
    /\ pc = "done"
    /\ ~ex_sendOnly
    /\ ret = Unset
    /\ ex_path.retries = MaxRetries
    /\ Len(pkt_tx) = MaxRetries + 1
    /\ Len(rx_log) = MaxDeliver
    /\ \A i \in 1..Len(rx_log) : ~IsReply(rx_log[i])
    /\ pkt_rx # <<>>
    /\ ~Matches(rmatch, Received(Head(pkt_rx)))

----------------------------------------------------------------------------
(* Two transactors on one data socket, checked under SpecShare.            *)

PeerIdle == peer.pc = "idle"

(* The replies to the first transactor's buffer that reached the socket. *)
RepliesArrived == {i \in 1..Len(arrivals) : IsReply(arrivals[i])}

(* The replies to the first transactor's buffer that the second one read. *)
RepliesTaken == {i \in 1..Len(peer.rx) : IsReply([d |-> peer.rx[i]])}

(* C19, as claimed: while the second transactor has not called _execute,   *)
(* the first returns a reply whenever a matching reply reached the socket  *)
(* before its final deadline: here, during the call and before the         *)
(* deadline then in force, which the final deadline is not earlier than.   *)
C19_AsClaimed ==
    (PeerIdle /\ Returned /\ \E i \in RepliesArrived : arrivals[i].early) =>
        ret # Unset

(* C19, amended: each datagram is taken off the socket by the one recvfrom *)
(* that reads it, of either transactor, and is not put back; a transactor  *)
(* returns the reply it reads if the match key is its own and goes on      *)
(* waiting if not. While the second transactor has not called _execute it  *)
(* has read nothing, and the first returns a reply whenever a matching     *)
(* reply reached the empty socket while it was blocked in poll() before    *)
(* its deadline.                                                           *)
C19_OneReaderPerDatagram ==
    /\ rx_total = Len(pkt_rx) + Len(rx_log) + Len(peer.rx)
    /\ (Returned /\ ret = Unset) => \A i \in 1..Len(rx_log) : ~IsReply(rx_log[i])
    /\ (peer.pc = "done" /\ peer.ret # Unset) =>
           /\ Matches(peer.rmatch, peer.ret)
           /\ peer.ret = Received(Last(peer.rx))
    /\ \A i \in 1..(Len(peer.rx) - 1) : ~Matches(peer.rmatch, Received(peer.rx[i]))
    /\ PeerIdle => peer.rx = <<>>
    /\ (PeerIdle /\ Returned /\ \E i \in RepliesArrived : arrivals[i].blocked) =>
           ret # Unset

(* C19's case: both calls were in flight; the reply to the first reached   *)
(* the socket while the first was blocked in poll(), the second read it,   *)
(* found another match key and went on; the first spent its budget and     *)
(* returned None.                                                          *)
C19_Witness ==
    /\ Returned
    /\ ret = Unset
    /\ ex_path.retries >= 1
    /\ Len(pkt_tx) = ex_path.retries + 1
    /\ rx_log = <<>>
    /\ \E i \in RepliesArrived : arrivals[i].blocked
    /\ RepliesTaken # {}
    /\ \A i \in RepliesTaken : ~Matches(peer.rmatch, Received(peer.rx[i]))
    /\ peer.pc # "idle"

====
